---- MODULE Spec2Model ----
(***************************************************************************)
(* Job-board backend (src/index.js): registration, login, bearer tokens,   *)
(* role guards, and the resume / job / application handlers.               *)
(*                                                                         *)
(* Every express handler is modelled as a request slot that moves from one *)
(* persistence call (an `await`) to the next.  One action is one           *)
(* persistence call together with the synchronous code that follows it up  *)
(* to the next `await` or to the response.  The middleware chain           *)
(* (auth, isCandidate / isRecruiter / isAdmin) is synchronous and is part  *)
(* of the action that accepts the request.                                 *)
(***************************************************************************)
EXTENDS Naturals, FiniteSets, Sequences, TLC

\* ------------------------------------------------------------------ bounds
MaxJobs     == 2   \* job documents ever created
MaxResumes  == 2   \* resume documents ever created
MaxApps     == 2   \* application documents ever created
MaxUsers    == 2   \* user documents ever constructed
MaxTokens   == 2   \* tokens ever issued by /login
MaxClock    == 6   \* hours the clock may advance
MaxIssueAt  == 1   \* latest hour at which /login issues a token

\* ------------------------------------------------------- program constants
ExpiresIn   == 5   \* jwt.sign(..., { expiresIn: '5h' }), in hours

JwtSecret   == "JWT_SECRET"
OtherKey    == "other-key"

Roles       == {"Candidate", "Recruiter", "Admin"}
Statuses    == {"Submitted", "Viewed", "Rejected", "Interviewing"}
EmploymentTypes == {"Full-time", "Part-time", "Contract", "Internship"}
Absent      == "absent"      \* a field the JSON body or the document lacks

\* ---------------------------------------------------------------- responses
Resp(s, m)  == [status |-> s, msg |-> m]
NoResp      == Resp(0, "")
NoTokenResp        == Resp(401, "No token, authorization denied")
BadTokenResp       == Resp(401, "Token is not valid")
NotCandidateResp   == Resp(403, "Only candidates can perform this action.")
NotAdminResp       == Resp(403, "Admin access denied")
NotRecruiterResp   == Resp(401, "Only recruiters can access this route")
ServerErrorResp    == Resp(500, "Server error")
UserExistsResp     == Resp(400, "User already exists")
RegisteredResp     == Resp(201, "User registered successfully")
InvalidCredentialsResp == Resp(400, "Invalid credentials")
TokenResp          == Resp(200, "token")
ResumeSavedResp    == Resp(201, "Resume saved successfully!")
ResumeSaveFailedResp == Resp(500, "Failed to save resume.")
ResumeNotFoundResp == Resp(404, "Resume not found")
ResumeDeletedResp  == Resp(200, "Resume deleted successfully")
TemplateUpdatedResp == Resp(200, "Template updated successfully")
JobCreatedResp     == Resp(201, "job")
JobNotFoundResp    == Resp(404, "Job not found")
NotOwnerResp       == Resp(401, "User not authorized")
JobRemovedResp     == Resp(200, "Job removed")
NoResumeResp       == Resp(400, "You must have a saved resume to apply.")
AlreadyAppliedResp == Resp(400, "You have already applied for this job.")
AppliedResp        == Resp(201, "Application submitted successfully!")
UserNotFoundResp   == Resp(404, "User not found")
OwnAccountResp     == Resp(400, "You cannot delete your own account.")
UserRemovedResp    == Resp(200, "User removed")
InvalidRoleResp    == Resp(400, "Invalid role specified.")
OwnRoleResp        == Resp(400, "You cannot change your own role.")
RoleChangedResp    == Resp(200, "user")

\* -------------------------------------------------------------------- state
VARIABLES
  users,        \* User collection: [id, username, password, role, recruiterProfile]
  profiles,     \* RecruiterProfile collection: [id, user]
  resumes,      \* Resume collection: [id, user, summary, template]
  jobs,         \* Job collection: [id, recruiter, employmentType]
  applications, \* Application collection: [id, job, candidate, resume, status]
  tokens,       \* tokens issued so far (held by clients)
  now,          \* the server clock, in hours
  nextId,       \* next fresh ObjectId per collection
  reqs          \* request slots: the handlers in flight and their local variables

vars == <<users, profiles, resumes, jobs, applications, tokens, now, nextId, reqs>>

db == <<users, profiles, resumes, jobs, applications>>

Slots     == {1, 2}
SeqSlots  == {1}

NoFaults  == {TRUE}
Faults    == {TRUE, FALSE}

\* ------------------------------------------------------------------ tokens
\* jwt.sign(payload, secret, { expiresIn: '5h' })
Sign(user, key, t) ==
  [user |-> [id |-> user.id, role |-> user.role], iat |-> t, exp |-> t + ExpiresIn, key |-> key]

\* (variant: a token is still accepted at the instant it expires)
VerifyInclusive(token, t) == token.key = JwtSecret /\ t <= token.exp

\* jwt.verify(token, secret): the signature matches and the token has not expired
Verify(token, t) == token.key = JwtSecret /\ t < token.exp

\* ----------------------------------------------------------------- requests
IdleReq ==
  [op |-> "none", pc |-> "idle", user |-> [id |-> 0, role |-> "none"], id |-> 0,
   body |-> <<>>, job |-> {}, resume |-> {}, target |-> {}, resp |-> NoResp]

InFlight(r) == reqs[r].pc \notin {"idle", "done"}

\* the handler sends its response; its local variables go out of scope
Respond(r, resp) ==
  reqs' = [reqs EXCEPT ![r] = [@ EXCEPT !.pc = "done", !.resp = resp,
                                         !.job = {}, !.resume = {}, !.target = {}]]

Goto(r, pc) == reqs' = [reqs EXCEPT ![r].pc = pc]

\* the guard of each operation: which role the route requires and the response
\* its role middleware gives to any other role
RequiredRole(op) ==
  CASE op \in {"saveResume", "deleteResume", "updateTemplate", "apply"} -> "Candidate"
    [] op \in {"createJob", "deleteJob"} -> "Recruiter"
    [] op \in {"deleteUser", "changeRole"} -> "Admin"

\* (variant: every role middleware answers 403)
RoleDeniedUniform(op) ==
  CASE RequiredRole(op) = "Candidate" -> NotCandidateResp
    [] RequiredRole(op) = "Recruiter" -> Resp(403, "Only recruiters can access this route")
    [] RequiredRole(op) = "Admin"     -> NotAdminResp

RoleDenied(op) ==
  CASE RequiredRole(op) = "Candidate" -> NotCandidateResp
    [] RequiredRole(op) = "Recruiter" -> NotRecruiterResp
    [] RequiredRole(op) = "Admin"     -> NotAdminResp

\* first persistence call of each protected handler
FirstPc(op) ==
  CASE op = "saveResume"     -> "resume_upsert"
    [] op = "deleteResume"   -> "delresume_find"
    [] op = "updateTemplate" -> "template_find"
    [] op = "createJob"      -> "job_save"
    [] op = "deleteJob"      -> "deljob_find"
    [] op = "apply"          -> "apply_findJob"
    [] op = "deleteUser"     -> "deluser_find"
    [] op = "changeRole"     -> "role_find"

\* (variant: the role of a changeRole body is not validated)
AcceptOutcomeAnyRole(op, hdr, id, body) ==
  LET new == [IdleReq EXCEPT !.op = op, !.id = id, !.body = body]
      deny(q, resp) == [q EXCEPT !.pc = "done", !.resp = resp]
  IN
  IF hdr = {} THEN deny(new, NoTokenResp)
  ELSE LET token == CHOOSE t \in hdr : TRUE
           authed == [new EXCEPT !.user = token.user]
       IN
    IF ~(token.key = JwtSecret /\ now < token.exp) THEN deny(new, BadTokenResp)
    ELSE IF token.user.role # RequiredRole(op) THEN deny(authed, RoleDenied(op))
    ELSE [authed EXCEPT !.pc = FirstPc(op)]

\* auth: header missing -> 401; jwt.verify throws -> 401; else req.user = decoded.user.
\* Then the role middleware, then the handler's synchronous prefix up to its
\* first persistence call.  The value is the request as it stands afterwards.
AcceptOutcome(op, hdr, id, body) ==
  LET new == [IdleReq EXCEPT !.op = op, !.id = id, !.body = body]
      deny(q, resp) == [q EXCEPT !.pc = "done", !.resp = resp]
  IN
  IF hdr = {} THEN deny(new, NoTokenResp)
  ELSE LET token == CHOOSE t \in hdr : TRUE
           authed == [new EXCEPT !.user = token.user]
       IN
    IF ~Verify(token, now) THEN deny(new, BadTokenResp)
    ELSE IF token.user.role # RequiredRole(op) THEN deny(authed, RoleDenied(op))
    ELSE IF op = "changeRole" /\ body.role \notin Roles THEN deny(authed, InvalidRoleResp)
    ELSE [authed EXCEPT !.pc = FirstPc(op)]

Accept(r, op, hdr, id, body) ==
  reqs' = [reqs EXCEPT ![r] = AcceptOutcome(op, hdr, id, body)]

\* the x-auth-token headers a client can send: none, a token it was issued,
\* or a token it signed itself with a key that is not the server's
Forged == Sign([id |-> 1, role |-> "Admin"], OtherKey, now)

Headers == {{}} \cup {{t} : t \in tokens} \cup {{Forged}}

\* ------------------------------------------------------------ resume routes
At(r, pc) == reqs[r].pc = pc

ResumesOf(uid) == {d \in resumes : d.user = uid}

\* (variant: { key: val, ...body }, a key the body carries wins)
SpreadUnder(body, key, val) ==
  [k \in DOMAIN body \cup {key} |-> IF k \in DOMAIN body THEN body[k] ELSE val]

\* the object literal { ...body, key: val }: the body's fields, then key,
\* which replaces a field of that name the body carries
Spread(body, key, val) ==
  [k \in DOMAIN body \cup {key} |-> IF k = key THEN val ELSE body[k]]

\* the update document { ...req.body, user: req.user.id }: mongoose applies the
\* fields it holds with $set, so a field the body lacks keeps its stored value
SetFields(doc, body, uid) ==
  LET resumeData == Spread(body, "user", uid) IN
  [doc EXCEPT !.user = resumeData.user,
              !.summary  = IF resumeData.summary  = Absent THEN @ ELSE resumeData.summary,
              !.template = IF resumeData.template = Absent THEN @ ELSE resumeData.template]

\* the document an upsert inserts: the update's fields (the filter's user is
\* set again by the update), and the schema default for template
InsertedResume(id, body, uid) ==
  LET resumeData == Spread(body, "user", uid) IN
  [id |-> id, user |-> resumeData.user, summary |-> resumeData.summary,
   template |-> IF resumeData.template = Absent THEN "classic" ELSE resumeData.template]

\* POST /api/resume: Resume.findOneAndUpdate({user}, data, {upsert: true}).
\* A matching document is updated in one atomic step.  With no match the store
\* goes on to insert; resumeSchema declares no unique index on user, so the
\* match and the insert are two steps of the store.
ResumeUpsert(r, F) ==
  /\ At(r, "resume_upsert")
  /\ \E ok \in F :
       IF ~ok THEN Respond(r, ResumeSaveFailedResp) /\ UNCHANGED resumes
       ELSE IF ResumesOf(reqs[r].user.id) # {} THEN
         \E d \in ResumesOf(reqs[r].user.id) :
           /\ resumes' = (resumes \ {d}) \cup {SetFields(d, reqs[r].body, reqs[r].user.id)}
           /\ Respond(r, ResumeSavedResp)
       ELSE Goto(r, "resume_insert") /\ UNCHANGED resumes
  /\ UNCHANGED <<users, profiles, jobs, applications, tokens, now, nextId>>

ResumeInsert(r, F) ==
  /\ At(r, "resume_insert")
  /\ nextId.resume <= MaxResumes
  /\ \E ok \in F :
       IF ~ok THEN Respond(r, ResumeSaveFailedResp) /\ UNCHANGED <<resumes, nextId>>
       ELSE /\ resumes' = resumes \cup
                  {InsertedResume(nextId.resume, reqs[r].body, reqs[r].user.id)}
            /\ nextId' = [nextId EXCEPT !.resume = @ + 1]
            /\ Respond(r, ResumeSavedResp)
  /\ UNCHANGED <<users, profiles, jobs, applications, tokens, now>>

\* DELETE /api/resume
DeleteResumeFind(r, F) ==
  /\ At(r, "delresume_find")
  /\ \E ok \in F :
       IF ~ok THEN Respond(r, ServerErrorResp)
       ELSE IF ResumesOf(reqs[r].user.id) = {} THEN Respond(r, ResumeNotFoundResp)
       ELSE \E d \in ResumesOf(reqs[r].user.id) :
              reqs' = [reqs EXCEPT ![r].pc = "delresume_remove", ![r].resume = {d}]
  /\ UNCHANGED <<users, profiles, resumes, jobs, applications, tokens, now, nextId>>

DeleteResumeRemove(r, F) ==
  /\ At(r, "delresume_remove")
  /\ \E ok \in F :
       IF ~ok THEN Respond(r, ServerErrorResp) /\ UNCHANGED resumes
       ELSE /\ resumes' = {d \in resumes : \A x \in reqs[r].resume : d.id # x.id}
            /\ Respond(r, ResumeDeletedResp)
  /\ UNCHANGED <<users, profiles, jobs, applications, tokens, now, nextId>>

\* PUT /api/resume/template
TemplateFind(r, F) ==
  /\ At(r, "template_find")
  /\ \E ok \in F :
       IF ~ok THEN Respond(r, ServerErrorResp)
       ELSE IF ResumesOf(reqs[r].user.id) = {} THEN Respond(r, ResumeNotFoundResp)
       ELSE \E d \in ResumesOf(reqs[r].user.id) :
              reqs' = [reqs EXCEPT ![r].pc = "template_save", ![r].resume = {d}]
  /\ UNCHANGED <<users, profiles, resumes, jobs, applications, tokens, now, nextId>>

\* resume.save() writes the modified path to the document with that _id; when
\* the document is gone the save rejects and nothing is written
TemplateSave(r, F) ==
  /\ At(r, "template_save")
  /\ \E ok \in F :
       LET hit == {d \in resumes : \E x \in reqs[r].resume : d.id = x.id} IN
       IF ~ok \/ hit = {} THEN Respond(r, ServerErrorResp) /\ UNCHANGED resumes
       ELSE /\ resumes' = (resumes \ hit) \cup
                  {[d EXCEPT !.template = reqs[r].body.template] : d \in hit}
            /\ Respond(r, TemplateUpdatedResp)
  /\ UNCHANGED <<users, profiles, jobs, applications, tokens, now, nextId>>

\* --------------------------------------------------------------- job routes
\* jobSchema validation: the required paths are present and employmentType
\* is of the enum (recruiter, also required, is always set by the handler)
JobValid(body) ==
  /\ body.jobTitle # Absent
  /\ body.location # Absent
  /\ body.employmentType \in EmploymentTypes
  /\ body.jobSummary # Absent
  /\ body.companyName # Absent

\* POST /jobs: new Job({ ...req.body, recruiter: req.user.id }).save()
JobSave(r, F) ==
  /\ At(r, "job_save")
  /\ nextId.job <= MaxJobs
  /\ \E ok \in F :
       IF ~ok \/ ~JobValid(reqs[r].body)
       THEN Respond(r, ServerErrorResp) /\ UNCHANGED <<jobs, nextId>>
       ELSE /\ LET newJob == Spread(reqs[r].body, "recruiter", reqs[r].user.id) IN
                 jobs' = jobs \cup {[id |-> nextId.job, recruiter |-> newJob.recruiter,
                                     employmentType |-> newJob.employmentType]}
            /\ nextId' = [nextId EXCEPT !.job = @ + 1]
            /\ Respond(r, JobCreatedResp)
  /\ UNCHANGED <<users, profiles, resumes, applications, tokens, now>>

JobById(id) == {j \in jobs : j.id = id}

\* (variant: the job's recruiter is not compared with the caller)
DeleteJobFindAnyOwner(r, F) ==
  /\ At(r, "deljob_find")
  /\ \E ok \in F :
       IF ~ok THEN Respond(r, ServerErrorResp)
       ELSE IF JobById(reqs[r].id) = {} THEN Respond(r, JobNotFoundResp)
       ELSE reqs' = [reqs EXCEPT ![r].pc = "deljob_deleteOne", ![r].job = JobById(reqs[r].id)]
  /\ UNCHANGED <<users, profiles, resumes, jobs, applications, tokens, now, nextId>>

\* DELETE /jobs/:id
DeleteJobFind(r, F) ==
  /\ At(r, "deljob_find")
  /\ \E ok \in F :
       IF ~ok THEN Respond(r, ServerErrorResp)
       ELSE IF JobById(reqs[r].id) = {} THEN Respond(r, JobNotFoundResp)
       ELSE IF \E j \in JobById(reqs[r].id) : j.recruiter # reqs[r].user.id
         THEN Respond(r, NotOwnerResp)
       ELSE reqs' = [reqs EXCEPT ![r].pc = "deljob_deleteOne", ![r].job = JobById(reqs[r].id)]
  /\ UNCHANGED <<users, profiles, resumes, jobs, applications, tokens, now, nextId>>

DeleteJobDeleteOne(r, F) ==
  /\ At(r, "deljob_deleteOne")
  /\ \E ok \in F :
       IF ~ok THEN Respond(r, ServerErrorResp) /\ UNCHANGED jobs
       ELSE jobs' = jobs \ JobById(reqs[r].id) /\ Goto(r, "deljob_deleteMany")
  /\ UNCHANGED <<users, profiles, resumes, applications, tokens, now, nextId>>

DeleteJobDeleteMany(r, F) ==
  /\ At(r, "deljob_deleteMany")
  /\ \E ok \in F :
       IF ~ok THEN Respond(r, ServerErrorResp) /\ UNCHANGED applications
       ELSE /\ applications' = {a \in applications : a.job # reqs[r].id}
            /\ Respond(r, JobRemovedResp)
  /\ UNCHANGED <<users, profiles, resumes, jobs, tokens, now, nextId>>

\* ------------------------------------------------------- application routes
ApplicationsOf(jobId, uid) == {a \in applications : a.job = jobId /\ a.candidate = uid}

\* POST /api/jobs/:id/apply
ApplyFindJob(r, F) ==
  /\ At(r, "apply_findJob")
  /\ \E ok \in F :
       IF ~ok THEN Respond(r, ServerErrorResp)
       ELSE IF JobById(reqs[r].id) = {} THEN Respond(r, JobNotFoundResp)
       ELSE reqs' = [reqs EXCEPT ![r].pc = "apply_findResume", ![r].job = JobById(reqs[r].id)]
  /\ UNCHANGED <<users, profiles, resumes, jobs, applications, tokens, now, nextId>>

\* (variant: a candidate without a resume is told the job is missing)
ApplyFindResumeAs404(r, F) ==
  /\ At(r, "apply_findResume")
  /\ \E ok \in F :
       IF ~ok THEN Respond(r, ServerErrorResp)
       ELSE IF ResumesOf(reqs[r].user.id) = {} THEN Respond(r, JobNotFoundResp)
       ELSE \E d \in ResumesOf(reqs[r].user.id) :
              reqs' = [reqs EXCEPT ![r].pc = "apply_findApplication", ![r].resume = {d}]
  /\ UNCHANGED <<users, profiles, resumes, jobs, applications, tokens, now, nextId>>

ApplyFindResume(r, F) ==
  /\ At(r, "apply_findResume")
  /\ \E ok \in F :
       IF ~ok THEN Respond(r, ServerErrorResp)
       ELSE IF ResumesOf(reqs[r].user.id) = {} THEN Respond(r, NoResumeResp)
       ELSE \E d \in ResumesOf(reqs[r].user.id) :
              reqs' = [reqs EXCEPT ![r].pc = "apply_findApplication", ![r].resume = {d}]
  /\ UNCHANGED <<users, profiles, resumes, jobs, applications, tokens, now, nextId>>

\* (variant: the duplicate check is skipped)
ApplyFindApplicationUnchecked(r, F) ==
  /\ At(r, "apply_findApplication")
  /\ \E ok \in F : IF ~ok THEN Respond(r, ServerErrorResp) ELSE Goto(r, "apply_save")
  /\ UNCHANGED <<users, profiles, resumes, jobs, applications, tokens, now, nextId>>

ApplyFindApplication(r, F) ==
  /\ At(r, "apply_findApplication")
  /\ \E ok \in F :
       IF ~ok THEN Respond(r, ServerErrorResp)
       ELSE IF ApplicationsOf(reqs[r].id, reqs[r].user.id) # {} THEN Respond(r, AlreadyAppliedResp)
       ELSE Goto(r, "apply_save")
  /\ UNCHANGED <<users, profiles, resumes, jobs, applications, tokens, now, nextId>>

\* (variant: a new Application starts as Viewed)
NewApplicationViewed(id, jobId, uid, resume) ==
  [id |-> id, job |-> jobId, candidate |-> uid, resume |-> resume.id, status |-> "Viewed"]

\* new Application({ job, candidate, resume }): the request body is not read
\* and status takes the schema default
NewApplication(id, jobId, uid, resume) ==
  [id |-> id, job |-> jobId, candidate |-> uid, resume |-> resume.id, status |-> "Submitted"]

ApplySave(r, F) ==
  /\ At(r, "apply_save")
  /\ nextId.application <= MaxApps
  /\ \E ok \in F :
       IF ~ok THEN Respond(r, ServerErrorResp) /\ UNCHANGED <<applications, nextId>>
       ELSE /\ \E d \in reqs[r].resume :
                 applications' = applications \cup
                   {NewApplication(nextId.application, reqs[r].id, reqs[r].user.id, d)}
            /\ nextId' = [nextId EXCEPT !.application = @ + 1]
            /\ Respond(r, AppliedResp)
  /\ UNCHANGED <<users, profiles, resumes, jobs, tokens, now>>


\* ------------------------------------------------------------- credentials
\* the User model's pre-save hook stores a one-way hash of the secret
Hash(pw) == <<"bcrypt", pw>>

\* bcrypt.compare(password, user.password)
Compare(pw, hash) == Hash(pw) = hash

UserDoc(id, username, pw, role, profile) ==
  [id |-> id, username |-> username, password |-> Hash(pw), role |-> role,
   recruiterProfile |-> profile]

\* ------------------------------------------------- the workflow specification
\* Two candidates and a recruiter have registered and logged in at hour 0;
\* no resume, job or application exists yet.
WorkUsers ==
  {UserDoc(1, "ann", "pw1", "Candidate", 0),
   UserDoc(2, "bob", "pw1", "Candidate", 0),
   UserDoc(3, "rex", "pw1", "Recruiter", 1)}

\* the users who have logged in
LoggedIn == {"ann", "rex"}

InitWork ==
  /\ users = WorkUsers
  /\ profiles = {[id |-> 1, user |-> 3]}
  /\ resumes = {}
  /\ jobs = {}
  /\ applications = {}
  /\ tokens = {Sign(u, JwtSecret, 0) : u \in {x \in WorkUsers : x.username \in LoggedIn}}
  /\ now = 0
  /\ nextId = [user |-> 4, profile |-> 2, resume |-> 1, job |-> 1, application |-> 1]
  /\ reqs = [r \in Slots |-> IdleReq]

WorkOps == {"saveResume", "deleteResume", "updateTemplate", "createJob", "deleteJob", "apply"}

\* a POST /jobs body with every required field
JobBody ==
  [jobTitle |-> "t", location |-> "l", employmentType |-> "Full-time",
   jobSummary |-> "s", companyName |-> "c"]

\* the JSON bodies and :id parameters the clients send
Bodies(op) ==
  CASE op = "saveResume"     -> {[summary |-> s, template |-> t] :
                                  s \in {Absent, "s1"}, t \in {Absent, "modern"}}
    [] op = "updateTemplate" -> {[template |-> "modern"]}
    [] op = "createJob"      -> {[JobBody EXCEPT !.employmentType = e] : e \in {"Full-time", "Gig"}}
                                  \cup {[JobBody EXCEPT !.companyName = Absent]}
    [] op = "changeRole"     -> {[role |-> x] : x \in Roles \cup {"Unicorn"}}
    [] OTHER                 -> {<<>>}

Params(op) ==
  CASE op \in {"deleteJob", "apply"}       -> 1..MaxJobs
    [] op \in {"deleteUser", "changeRole"} -> 1..nextId.user
    [] OTHER                               -> {0}

\* a client sends a request to a protected route
Request(r, ops, hdrs, bodies) ==
  /\ ~InFlight(r)
  /\ \E op \in ops : \E hdr \in hdrs : \E id \in Params(op) : \E body \in bodies[op] :
       Accept(r, op, hdr, id, body)
  /\ UNCHANGED <<users, profiles, resumes, jobs, applications, tokens, now, nextId>>

WorkStep(r, F) ==
  \/ ResumeUpsert(r, F)
  \/ ResumeInsert(r, F)
  \/ DeleteResumeFind(r, F)
  \/ DeleteResumeRemove(r, F)
  \/ TemplateFind(r, F)
  \/ TemplateSave(r, F)
  \/ JobSave(r, F)
  \/ DeleteJobFind(r, F)
  \/ DeleteJobDeleteOne(r, F)
  \/ DeleteJobDeleteMany(r, F)
  \/ ApplyFindJob(r, F)
  \/ ApplyFindResume(r, F)
  \/ ApplyFindApplication(r, F)
  \/ ApplySave(r, F)

\* one request at a time, the store never fails
NextWork ==
  \E r \in SeqSlots :
    \/ Request(r, WorkOps, Headers, [op \in WorkOps |-> Bodies(op)])
    \/ WorkStep(r, NoFaults)

SpecWork == InitWork /\ [][NextWork]_vars

\* requests overlap: their persistence calls interleave
ConcOps == {"saveResume", "createJob", "deleteJob", "apply"}

ValidHeaders == {{t} : t \in tokens}

\* overlapping requests send one well-formed body per route
ConcBodies(op) ==
  CASE op = "saveResume" -> {[summary |-> "s1", template |-> Absent]}
    [] op = "createJob"  -> {JobBody}
    [] OTHER             -> {<<>>}

ConcStep(r, F) ==
  \/ ResumeUpsert(r, F)
  \/ ResumeInsert(r, F)
  \/ JobSave(r, F)
  \/ DeleteJobFind(r, F)
  \/ DeleteJobDeleteOne(r, F)
  \/ DeleteJobDeleteMany(r, F)
  \/ ApplyFindJob(r, F)
  \/ ApplyFindResume(r, F)
  \/ ApplyFindApplication(r, F)
  \/ ApplySave(r, F)

NextWorkConc ==
  \E r \in Slots :
    \/ Request(r, ConcOps, ValidHeaders, [op \in ConcOps |-> ConcBodies(op)])
    \/ ConcStep(r, NoFaults)

SpecWorkConc == InitWork /\ [][NextWorkConc]_vars

\* one request at a time, any persistence call may fail with a storage error
NextWorkFault ==
  \E r \in SeqSlots :
    \/ Request(r, WorkOps, Headers, [op \in WorkOps |-> Bodies(op)])
    \/ WorkStep(r, Faults)

SpecWorkFault == InitWork /\ [][NextWorkFault]_vars


\* ------------------------------------------------------------- user routes
UsersNamed(username) == {u \in users : u.username = username}

UserById(id) == {u \in users : u.id = id}

\* what the User model accepts on save: a role of the closed role set and a
\* username no other user holds
UserSaveOk(doc) ==
  /\ doc.role \in Roles
  /\ \A u \in users : u.username = doc.username => u.id = doc.id

\* a client sends a request to a public route (no middleware)
RequestPublic(r, ops, bodies) ==
  /\ ~InFlight(r)
  /\ \E op \in ops : \E body \in bodies[op] :
       reqs' = [reqs EXCEPT ![r] =
                  [IdleReq EXCEPT !.op = op, !.body = body,
                                  !.pc = IF op = "register" THEN "register_find" ELSE "login_find"]]
  /\ UNCHANGED <<users, profiles, resumes, jobs, applications, tokens, now, nextId>>

\* POST /register: User.findOne({ username }), then new User(...) and, for a
\* Recruiter, new RecruiterProfile({ user: user._id, ... })
RegisterFind(r, F) ==
  /\ At(r, "register_find")
  /\ \E ok \in F :
       IF ~ok THEN Respond(r, ServerErrorResp) /\ UNCHANGED nextId
       ELSE IF UsersNamed(reqs[r].body.username) # {}
         THEN Respond(r, UserExistsResp) /\ UNCHANGED nextId
       ELSE
         LET b == reqs[r].body
             user == UserDoc(nextId.user, b.username, b.password, b.role, 0)
         IN /\ nextId.user <= MaxUsers
            /\ reqs' = [reqs EXCEPT ![r].target = {user},
                                    ![r].pc = IF b.role = "Recruiter" THEN "register_saveProfile"
                                                                      ELSE "register_saveUser"]
            /\ nextId' = [nextId EXCEPT !.user = @ + 1]
  /\ UNCHANGED <<users, profiles, resumes, jobs, applications, tokens, now>>

\* await recruiterProfile.save(); user.recruiterProfile = recruiterProfile._id
RegisterSaveProfile(r, F) ==
  /\ At(r, "register_saveProfile")
  /\ \E ok \in F :
       IF ~ok THEN Respond(r, ServerErrorResp) /\ UNCHANGED <<profiles, nextId>>
       ELSE \E user \in reqs[r].target :
              /\ profiles' = profiles \cup {[id |-> nextId.profile, user |-> user.id]}
              /\ nextId' = [nextId EXCEPT !.profile = @ + 1]
              /\ reqs' = [reqs EXCEPT ![r].pc = "register_saveUser",
                            ![r].target = {[user EXCEPT !.recruiterProfile = nextId.profile]}]
  /\ UNCHANGED <<users, resumes, jobs, applications, tokens, now>>

\* await user.save()
RegisterSaveUser(r, F) ==
  /\ At(r, "register_saveUser")
  /\ \E ok \in F : \E user \in reqs[r].target :
       IF ~ok \/ ~UserSaveOk(user) THEN Respond(r, ServerErrorResp) /\ UNCHANGED users
       ELSE users' = users \cup {user} /\ Respond(r, RegisteredResp)
  /\ UNCHANGED <<profiles, resumes, jobs, applications, tokens, now, nextId>>

\* (variant: an unknown username is answered "User not found")
LoginFindReveals(r, F) ==
  /\ At(r, "login_find")
  /\ \E ok \in F :
       IF ~ok THEN Respond(r, ServerErrorResp)
       ELSE IF UsersNamed(reqs[r].body.username) = {} THEN Respond(r, UserNotFoundResp)
       ELSE \E user \in UsersNamed(reqs[r].body.username) :
              reqs' = [reqs EXCEPT ![r].pc = "login_compare", ![r].target = {user}]
  /\ UNCHANGED <<users, profiles, resumes, jobs, applications, tokens, now, nextId>>

\* POST /login: User.findOne({ username })
LoginFind(r, F) ==
  /\ At(r, "login_find")
  /\ \E ok \in F :
       IF ~ok THEN Respond(r, ServerErrorResp)
       ELSE IF UsersNamed(reqs[r].body.username) = {} THEN Respond(r, InvalidCredentialsResp)
       ELSE \E user \in UsersNamed(reqs[r].body.username) :
              reqs' = [reqs EXCEPT ![r].pc = "login_compare", ![r].target = {user}]
  /\ UNCHANGED <<users, profiles, resumes, jobs, applications, tokens, now, nextId>>

\* bcrypt.compare, then jwt.sign of { user: { id, role } } as read by findOne
LoginCompare(r) ==
  /\ At(r, "login_compare")
  /\ \E user \in reqs[r].target :
       IF ~Compare(reqs[r].body.password, user.password)
       THEN Respond(r, InvalidCredentialsResp) /\ UNCHANGED tokens
       ELSE /\ now <= MaxIssueAt
            /\ Cardinality(tokens \cup {Sign(user, JwtSecret, now)}) <= MaxTokens
            /\ tokens' = tokens \cup {Sign(user, JwtSecret, now)}
            /\ Respond(r, TokenResp)
  /\ UNCHANGED <<users, profiles, resumes, jobs, applications, now, nextId>>

\* DELETE /api/users/:id
DeleteUserFind(r, F) ==
  /\ At(r, "deluser_find")
  /\ \E ok \in F :
       IF ~ok THEN Respond(r, ServerErrorResp)
       ELSE IF UserById(reqs[r].id) = {} THEN Respond(r, UserNotFoundResp)
       ELSE IF reqs[r].id = reqs[r].user.id THEN Respond(r, OwnAccountResp)
       ELSE reqs' = [reqs EXCEPT ![r].pc = "deluser_remove", ![r].target = UserById(reqs[r].id)]
  /\ UNCHANGED <<users, profiles, resumes, jobs, applications, tokens, now, nextId>>

\* (variant: removing a user also removes the jobs and the resume it owns)
DeleteUserRemoveCascade(r, F) ==
  /\ At(r, "deluser_remove")
  /\ \E ok \in F :
       IF ~ok THEN Respond(r, ServerErrorResp) /\ UNCHANGED <<users, jobs, resumes>>
       ELSE /\ users' = users \ UserById(reqs[r].id)
            /\ jobs' = {j \in jobs : j.recruiter # reqs[r].id}
            /\ resumes' = {d \in resumes : d.user # reqs[r].id}
            /\ Respond(r, UserRemovedResp)
  /\ UNCHANGED <<profiles, applications, tokens, now, nextId>>

DeleteUserRemove(r, F) ==
  /\ At(r, "deluser_remove")
  /\ \E ok \in F :
       IF ~ok THEN Respond(r, ServerErrorResp) /\ UNCHANGED users
       ELSE users' = users \ UserById(reqs[r].id) /\ Respond(r, UserRemovedResp)
  /\ UNCHANGED <<profiles, resumes, jobs, applications, tokens, now, nextId>>

\* (variant: the actor is not compared with the target)
RoleFindAnyTarget(r, F) ==
  /\ At(r, "role_find")
  /\ \E ok \in F :
       IF ~ok THEN Respond(r, ServerErrorResp)
       ELSE IF UserById(reqs[r].id) = {} THEN Respond(r, UserNotFoundResp)
       ELSE reqs' = [reqs EXCEPT ![r].pc = "role_save",
                       ![r].target = {[u EXCEPT !.role = reqs[r].body.role] : u \in UserById(reqs[r].id)}]
  /\ UNCHANGED <<users, profiles, resumes, jobs, applications, tokens, now, nextId>>

\* PUT /api/users/:id/role (the role was validated before the first await)
RoleFind(r, F) ==
  /\ At(r, "role_find")
  /\ \E ok \in F :
       IF ~ok THEN Respond(r, ServerErrorResp)
       ELSE IF UserById(reqs[r].id) = {} THEN Respond(r, UserNotFoundResp)
       ELSE IF reqs[r].id = reqs[r].user.id THEN Respond(r, OwnRoleResp)
       ELSE reqs' = [reqs EXCEPT ![r].pc = "role_save",
                       ![r].target = {[u EXCEPT !.role = reqs[r].body.role] : u \in UserById(reqs[r].id)}]
  /\ UNCHANGED <<users, profiles, resumes, jobs, applications, tokens, now, nextId>>

\* user.save({ validateModifiedOnly: true }) writes the modified role to the
\* document with that _id; when the document is gone the save rejects
RoleSave(r, F) ==
  /\ At(r, "role_save")
  /\ \E ok \in F :
       IF ~ok \/ UserById(reqs[r].id) = {} THEN Respond(r, ServerErrorResp) /\ UNCHANGED users
       ELSE /\ users' = (users \ UserById(reqs[r].id)) \cup
                  {[u EXCEPT !.role = reqs[r].body.role] : u \in UserById(reqs[r].id)}
            /\ Respond(r, RoleChangedResp)
  /\ UNCHANGED <<profiles, resumes, jobs, applications, tokens, now, nextId>>

\* an hour passes
Tick ==
  /\ now < MaxClock
  /\ now' = now + 1
  /\ UNCHANGED <<users, profiles, resumes, jobs, applications, tokens, nextId, reqs>>

\* --------------------------------------------------- the account specification
\* The seed script has created the admin account in an empty store.
SeedAdmin == UserDoc(1, "admin", "adminpassword", "Admin", 0)

InitAuth ==
  /\ users = {SeedAdmin}
  /\ profiles = {}
  /\ resumes = {}
  /\ jobs = {}
  /\ applications = {}
  /\ tokens = {}
  /\ now = 0
  /\ nextId = [user |-> 2, profile |-> 1, resume |-> 1, job |-> 1, application |-> 1]
  /\ reqs = [r \in Slots |-> IdleReq]

PublicOps == {"register", "login"}
AdminOps  == {"deleteUser", "changeRole"}

PublicBodies(op) ==
  CASE op = "register" -> {[username |-> "ann", password |-> "pw1", role |-> x] :
                           x \in Roles \cup {"Unicorn"}}
    [] op = "login"    -> {[username |-> u, password |-> p] :
                             u \in {"admin", "ann"}, p \in {"adminpassword", "pw1"}}

AuthStep(r, F) ==
  \/ RegisterFind(r, F)
  \/ RegisterSaveProfile(r, F)
  \/ RegisterSaveUser(r, F)
  \/ LoginFind(r, F)
  \/ LoginCompare(r)
  \/ DeleteUserFind(r, F)
  \/ DeleteUserRemove(r, F)
  \/ RoleFind(r, F)
  \/ RoleSave(r, F)

\* one request at a time, the store never fails, the clock stands still
NextAuth ==
  \E r \in SeqSlots :
    \/ RequestPublic(r, PublicOps, [op \in PublicOps |-> PublicBodies(op)])
    \/ Request(r, AdminOps, Headers, [op \in AdminOps |-> Bodies(op)])
    \/ AuthStep(r, NoFaults)

SpecAuth == InitAuth /\ [][NextAuth]_vars

\* ----------------------------------------------------- the token specification
\* The seeded admin and a second user who registered as Admin; nobody has
\* logged in yet.  The clock runs.
InitToken ==
  /\ users = {SeedAdmin, UserDoc(2, "ann", "pw1", "Admin", 0)}
  /\ profiles = {}
  /\ resumes = {}
  /\ jobs = {}
  /\ applications = {}
  /\ tokens = {}
  /\ now = 0
  /\ nextId = [user |-> 3, profile |-> 1, resume |-> 1, job |-> 1, application |-> 1]
  /\ reqs = [r \in Slots |-> IdleReq]

TokenBodies(op) ==
  CASE op = "login"      -> {[username |-> u, password |-> p] :
                             u \in {"admin", "ann"}, p \in {"adminpassword", "pw1"}}
    [] op = "changeRole" -> {[role |-> x] : x \in {"Candidate", "Unicorn"}}
    [] OTHER             -> {<<>>}

TokenStep(r, F) ==
  \/ LoginFind(r, F)
  \/ LoginCompare(r)
  \/ DeleteUserFind(r, F)
  \/ DeleteUserRemove(r, F)
  \/ RoleFind(r, F)
  \/ RoleSave(r, F)

NextToken ==
  \/ Tick
  \/ \E r \in SeqSlots :
       \/ RequestPublic(r, {"login"}, [op \in {"login"} |-> TokenBodies(op)])
       \/ Request(r, AdminOps, Headers, [op \in AdminOps |-> TokenBodies(op)])
       \/ TokenStep(r, NoFaults)

SpecToken == InitToken /\ [][NextToken]_vars

\* ------------------------------------------- overlapping registration requests
\* The store is empty (the seed script has not run).
InitRegister ==
  /\ users = {}
  /\ profiles = {}
  /\ resumes = {}
  /\ jobs = {}
  /\ applications = {}
  /\ tokens = {}
  /\ now = 0
  /\ nextId = [user |-> 1, profile |-> 1, resume |-> 1, job |-> 1, application |-> 1]
  /\ reqs = [r \in Slots |-> IdleReq]

RegisterBodies(op) ==
  {[username |-> "ann", password |-> "pw1", role |-> x] :
     x \in {"Candidate", "Recruiter", "Unicorn"}}

RegisterStep(r, F) ==
  \/ RegisterFind(r, F)
  \/ RegisterSaveProfile(r, F)
  \/ RegisterSaveUser(r, F)

NextRegisterConc ==
  \E r \in Slots :
    \/ RequestPublic(r, {"register"}, [op \in {"register"} |-> RegisterBodies(op)])
    \/ RegisterStep(r, NoFaults)

SpecRegisterConc == InitRegister /\ [][NextRegisterConc]_vars

\* registrations one at a time, any persistence call may fail
NextRegisterFault ==
  \E r \in SeqSlots :
    \/ RequestPublic(r, {"register"}, [op \in {"register"} |-> RegisterBodies(op)])
    \/ RegisterStep(r, Faults)

SpecRegisterFault == InitRegister /\ [][NextRegisterFault]_vars

\* --------------------------------------------------- the job specification
\* A candidate and two recruiters have registered and logged in at hour 0;
\* the candidate has saved a resume and applied to the one job the first
\* recruiter has created.  Requests overlap.
JobUsers ==
  {UserDoc(1, "ann", "pw1", "Candidate", 0),
   UserDoc(2, "rex", "pw1", "Recruiter", 1),
   UserDoc(3, "ray", "pw1", "Recruiter", 2)}

InitJobs ==
  /\ users = JobUsers
  /\ profiles = {[id |-> 1, user |-> 2], [id |-> 2, user |-> 3]}
  /\ resumes = {[id |-> 1, user |-> 1, summary |-> "s1", template |-> "classic"]}
  /\ jobs = {[id |-> 1, recruiter |-> 2, employmentType |-> "Full-time"]}
  /\ applications = {NewApplication(1, 1, 1, [id |-> 1])}
  /\ tokens = {Sign(u, JwtSecret, 0) : u \in JobUsers}
  /\ now = 0
  /\ nextId = [user |-> 4, profile |-> 3, resume |-> 2, job |-> 2, application |-> 2]
  /\ reqs = [r \in Slots |-> IdleReq]

JobOps == {"createJob", "deleteJob"}

JobStep(r, F) ==
  \/ JobSave(r, F)
  \/ DeleteJobFind(r, F)
  \/ DeleteJobDeleteOne(r, F)
  \/ DeleteJobDeleteMany(r, F)

NextJobs ==
  \E r \in Slots :
    \/ Request(r, JobOps, ValidHeaders, [op \in JobOps |-> ConcBodies(op)])
    \/ JobStep(r, NoFaults)

SpecJobs == InitJobs /\ [][NextJobs]_vars

\* ------------------------------------------------- the guard specification
\* The seeded admin, a candidate and a recruiter have registered.  The
\* candidate logged in at hour 0 and, like the other two, at hour 1; the
\* candidate has saved a resume and applied to the recruiter's one job.  It
\* is hour 5, so the candidate's first token has expired.  One request at a
\* time, with any header, to routes of each of the three roles.
GuardUsers ==
  {SeedAdmin,
   UserDoc(2, "ann", "pw1", "Candidate", 0),
   UserDoc(3, "rex", "pw1", "Recruiter", 1)}

InitGuard ==
  /\ users = GuardUsers
  /\ profiles = {[id |-> 1, user |-> 3]}
  /\ resumes = {[id |-> 1, user |-> 2, summary |-> "s1", template |-> "classic"]}
  /\ jobs = {[id |-> 1, recruiter |-> 3, employmentType |-> "Full-time"]}
  /\ applications = {NewApplication(1, 1, 2, [id |-> 1])}
  /\ tokens = {Sign(u, JwtSecret, 1) : u \in GuardUsers}
                \cup {Sign(u, JwtSecret, 0) : u \in {x \in GuardUsers : x.username = "ann"}}
  /\ now = 5
  /\ nextId = [user |-> 4, profile |-> 2, resume |-> 2, job |-> 2, application |-> 2]
  /\ reqs = [r \in Slots |-> IdleReq]

GuardOps == {"saveResume", "deleteResume", "createJob", "deleteJob", "deleteUser", "changeRole"}

GuardBodies(op) ==
  CASE op = "saveResume"     -> {[summary |-> "s1", template |-> Absent]}
    [] op = "updateTemplate" -> {[template |-> "modern"]}
    [] op = "createJob"      -> {JobBody}
    [] op = "changeRole"     -> {[role |-> x] : x \in {"Candidate", "Unicorn"}}
    [] OTHER                 -> {<<>>}

GuardStep(r, F) ==
  \/ ResumeUpsert(r, F)
  \/ ResumeInsert(r, F)
  \/ DeleteResumeFind(r, F)
  \/ DeleteResumeRemove(r, F)
  \/ JobSave(r, F)
  \/ DeleteJobFind(r, F)
  \/ DeleteJobDeleteOne(r, F)
  \/ DeleteJobDeleteMany(r, F)
  \/ DeleteUserFind(r, F)
  \/ DeleteUserRemove(r, F)
  \/ RoleFind(r, F)
  \/ RoleSave(r, F)

NextGuard ==
  \E r \in SeqSlots :
    \/ Request(r, GuardOps, Headers, [op \in GuardOps |-> GuardBodies(op)])
    \/ GuardStep(r, NoFaults)

SpecGuard == InitGuard /\ [][NextGuard]_vars

\* ----------------------------------------------- the payload specification
\* Two candidates and a recruiter have registered and logged in at hour 0;
\* the second candidate has saved a resume and the recruiter has created a
\* job.  One request at a time; the bodies may name an owner of their own.
InitPayload ==
  /\ users = WorkUsers
  /\ profiles = {[id |-> 1, user |-> 3]}
  /\ resumes = {[id |-> 1, user |-> 2, summary |-> "s0", template |-> "classic"]}
  /\ jobs = {[id |-> 1, recruiter |-> 3, employmentType |-> "Full-time"]}
  /\ applications = {}
  /\ tokens = {Sign(u, JwtSecret, 0) : u \in WorkUsers}
  /\ now = 0
  /\ nextId = [user |-> 4, profile |-> 2, resume |-> 2, job |-> 2, application |-> 1]
  /\ reqs = [r \in Slots |-> IdleReq]

PayloadOps == {"saveResume", "createJob", "apply"}

PayloadBodies(op) ==
  CASE op = "saveResume" -> {[summary |-> "s1", template |-> Absent],
                             [summary |-> "s1", template |-> Absent, user |-> 2]}
    [] op = "createJob"  -> {JobBody, JobBody @@ [recruiter |-> 1]}
    [] op = "apply"      -> {[status |-> "Submitted"],
                             [status |-> "Viewed", candidate |-> 2]}

PayloadStep(r, F) ==
  \/ ResumeUpsert(r, F)
  \/ ResumeInsert(r, F)
  \/ JobSave(r, F)
  \/ ApplyFindJob(r, F)
  \/ ApplyFindResume(r, F)
  \/ ApplyFindApplication(r, F)
  \/ ApplySave(r, F)

NextPayload ==
  \E r \in SeqSlots :
    \/ Request(r, PayloadOps, ValidHeaders, [op \in PayloadOps |-> PayloadBodies(op)])
    \/ PayloadStep(r, NoFaults)

SpecPayload == InitPayload /\ [][NextPayload]_vars

\* ================================================================== claims
\* request r, running operation op, sends its response in this step
Completes(r, op) == reqs[r].op = op /\ InFlight(r) /\ reqs'[r].pc = "done"

\* C1: in every reachable state, also with apply requests for the same pair
\* in flight at once, there is at most one Application per (job, candidate).
OneApplicationPerPair ==
  \A a \in applications : \A b \in applications :
    (a.job = b.job /\ a.candidate = b.candidate) => a = b

\* C2: with one request at a time, an apply for an existing job by a candidate
\* with a Resume succeeds when the pair has no Application, creating exactly
\* one, Submitted, referencing the candidate's current Resume id; and fails
\* with "already applied" leaving the Applications unchanged when it has one.
ApplyTwiceInSequence ==
  [][\A r \in SeqSlots :
      LET q    == reqs[r]
          mine == {a \in applications : a.job = q.id /\ a.candidate = q.user.id}
          cv   == {d \in resumes : d.user = q.user.id}
      IN (/\ Completes(r, "apply")
          /\ \E j \in jobs : j.id = q.id
          /\ cv # {})
         => IF mine = {}
            THEN /\ reqs'[r].resp = AppliedResp
                 /\ \E a \in applications' :
                      /\ a \notin applications
                      /\ applications' = applications \cup {a}
                      /\ a.job = q.id /\ a.candidate = q.user.id
                      /\ a.status = "Submitted"
                      /\ \A d \in cv : a.resume = d.id
            ELSE /\ reqs'[r].resp = AlreadyAppliedResp
                 /\ applications' = applications]_vars

\* C2 witness: the second apply of a pair was answered "already applied" and
\* the pair has its one Submitted Application, referencing the stored Resume.
SecondApplyRejected ==
  /\ reqs[1].op = "apply" /\ reqs[1].resp = AlreadyAppliedResp
  /\ \E a \in applications :
       /\ a.job = reqs[1].id /\ a.status = "Submitted"
       /\ \A b \in applications : b.job = a.job /\ b.candidate = a.candidate => b = a
       /\ \E d \in resumes : d.id = a.resume /\ d.user = a.candidate

\* C3: no deleteJob outcome leaves job J removed while Applications that
\* reference J remain.
DeleteJobAtomic ==
  \A r \in SeqSlots :
    (reqs[r].op = "deleteJob" /\ reqs[r].pc = "done" /\ (\A j \in jobs : j.id # reqs[r].id))
      => \A a \in applications : a.job # reqs[r].id

\* C4: in every reachable state, also with saveResume requests of one
\* candidate running concurrently, each candidate has zero or one Resume.
OneResumePerCandidate ==
  \A a \in resumes : \A b \in resumes : a.user = b.user => a = b

\* C10: with one request at a time, apply answers "job not found" when the
\* job is absent, "must have a saved resume" when the job exists and the
\* candidate has no Resume, changes no Application in either case, and
\* creates an Application only when the job and the Resume both exist.
ApplyPreconditions ==
  [][\A r \in SeqSlots :
      LET q  == reqs[r]
          jb == {j \in jobs : j.id = q.id}
          cv == {d \in resumes : d.user = q.user.id}
      IN Completes(r, "apply")
         => /\ jb = {} => (reqs'[r].resp = JobNotFoundResp /\ applications' = applications)
            /\ (jb # {} /\ cv = {})
                 => (reqs'[r].resp = NoResumeResp /\ applications' = applications)
            /\ applications' # applications => (jb # {} /\ cv # {})]_vars

\* C10 witness: job 1 was created and then deleted, and a later apply to it
\* by a candidate was answered "job not found".
ApplyAfterDeleteJob ==
  /\ reqs[1].op = "apply" /\ reqs[1].id = 1 /\ reqs[1].resp = JobNotFoundResp
  /\ nextId.job > 1
  /\ \A j \in jobs : j.id # 1


\* request slot r accepts a new request in this step
Arrives(r) == ~InFlight(r) /\ reqs'[r] # reqs[r]

\* C5: a register request that finishes while a User with its username is
\* stored is answered "User already exists" and creates no User, also when
\* two registrations of one new username overlap.
RegisterTakenIsConflict ==
  [][\A r \in Slots :
      (Completes(r, "register") /\ \E u \in users : u.username = reqs[r].body.username)
        => (reqs'[r].resp = UserExistsResp /\ users' = users)]_vars

\* C6: a login that matches no stored user and secret, whether the username
\* is unknown or the secret is wrong, gets the one response 400 "Invalid
\* credentials" and no token is issued; any other login gets a token.
LoginIndistinguishable ==
  [][\A r \in SeqSlots :
      LET q     == reqs[r]
          match == {u \in users : u.username = q.body.username
                                  /\ u.password = <<"bcrypt", q.body.password>>}
      IN Completes(r, "login")
         => IF match = {}
            THEN reqs'[r].resp = InvalidCredentialsResp /\ tokens' = tokens
            ELSE reqs'[r].resp = TokenResp]_vars

\* C6 witness: a login with the stored username "admin" and another secret was
\* answered "Invalid credentials", as a login with an unknown username is.
WrongSecretRejected ==
  /\ reqs[1].op = "login" /\ reqs[1].pc = "done"
  /\ reqs[1].body.username = "admin" /\ reqs[1].body.password # "adminpassword"
  /\ SeedAdmin \in users
  /\ reqs[1].resp = InvalidCredentialsResp
  /\ tokens = {}

\* C7: a request carrying a token issued by login passes the token check, as
\* the user id and role stored at issuance, at every hour before issuance + 5
\* and is answered 401 "Token is not valid" from then on, whatever the store
\* holds; a token is issued with the id and role of the stored user.
TokenLifetime ==
  /\ [](\A t \in tokens : \A op \in AdminOps : \A id \in Params(op) : \A body \in Bodies(op) :
          LET o == AcceptOutcome(op, {t}, id, body) IN
          IF now < t.iat + 5
          THEN /\ o.resp \notin {NoTokenResp, BadTokenResp}
               /\ o.user = t.user
               /\ (t.user.role = "Admin" /\ (op = "changeRole" => body.role \in Roles))
                    => o.pc = FirstPc(op)
          ELSE o.pc = "done" /\ o.resp = BadTokenResp)
  /\ [][\A t \in tokens' \ tokens :
          /\ t.iat = now
          /\ \E u \in users : u.id = t.user.id /\ u.role = t.user.role]_vars

\* C7 witness: in the last hour of its life the token of a user who has been
\* deleted passed the token and role checks of an Admin route.
TokenOutlivesUser ==
  \E t \in tokens :
    /\ reqs[1].pc \in {"deluser_find", "role_find"}
    /\ reqs[1].user = t.user
    /\ \A u \in users : u.id # t.user.id
    /\ now = t.iat + 4

\* C8 (as stated): every finished changeRole or deleteUser whose target is
\* the acting Admin was answered with the own-account refusal.
OwnAccountAlwaysRefused ==
  \A r \in SeqSlots :
    (/\ reqs[r].pc = "done" /\ reqs[r].op \in {"changeRole", "deleteUser"}
     /\ reqs[r].user.role = "Admin" /\ reqs[r].id = reqs[r].user.id)
    => reqs[r].resp = IF reqs[r].op = "changeRole" THEN OwnRoleResp ELSE OwnAccountResp

\* C8 (amended): a changeRole or deleteUser whose target is the acting Admin
\* never changes a User; it is answered with the own-account refusal when the
\* role is of the role set and the actor's User is stored, with "Invalid role
\* specified." when the role is not of the role set, and with "User not found"
\* when the actor's User is no longer stored.
OwnAccountNeverModified ==
  [][\A r \in SeqSlots :
      LET q == reqs[r]
          n == reqs'[r]
          stored == \E u \in users : u.id = q.id
      IN /\ (Completes(r, "changeRole") /\ q.id = q.user.id)
              => /\ users' = users
                 /\ n.resp = IF stored THEN OwnRoleResp ELSE UserNotFoundResp
         /\ (Completes(r, "deleteUser") /\ q.id = q.user.id)
              => /\ users' = users
                 /\ n.resp = IF stored THEN OwnAccountResp ELSE UserNotFoundResp
         /\ (/\ Arrives(r) /\ n.op \in {"changeRole", "deleteUser"}
             /\ n.user.role = "Admin" /\ n.id = n.user.id)
              => /\ users' = users
                 /\ IF n.op = "changeRole" /\ n.body.role \notin Roles
                    THEN n.pc = "done" /\ n.resp = InvalidRoleResp
                    ELSE n.pc \in {"role_find", "deluser_find"}]_vars

\* C8 witness: the stored Admin asked for a role of the role set for its own
\* account and was refused; its User still has the role Admin.
OwnRoleChangeRefused ==
  /\ reqs[1].op = "changeRole" /\ reqs[1].pc = "done"
  /\ reqs[1].id = reqs[1].user.id
  /\ reqs[1].body.role = "Candidate"
  /\ reqs[1].resp = OwnRoleResp
  /\ \E u \in users : u.id = reqs[1].id /\ u.role = "Admin"

\* C9: every stored User has a role of {Candidate, Recruiter, Admin}; a
\* changeRole by an Admin with any other role is answered "Invalid role
\* specified." at once and changes no User; a register with any other role
\* stores no User.
RoleSetClosed ==
  /\ [](\A u \in users : u.role \in {"Candidate", "Recruiter", "Admin"})
  /\ [][\A r \in SeqSlots :
          LET q == reqs[r]
              n == reqs'[r]
          IN /\ (/\ Arrives(r) /\ n.op = "changeRole" /\ n.user.role = "Admin"
                 /\ n.body.role \notin {"Candidate", "Recruiter", "Admin"})
                  => (n.pc = "done" /\ n.resp = InvalidRoleResp /\ users' = users)
             /\ (/\ Completes(r, "register")
                 /\ q.body.role \notin {"Candidate", "Recruiter", "Admin"})
                  => (users' = users /\ n.resp # RegisteredResp)]_vars

\* C9 witness: an Admin's changeRole to "Unicorn" for another stored user was
\* answered "Invalid role specified."
UnicornRefused ==
  /\ reqs[1].op = "changeRole" /\ reqs[1].pc = "done"
  /\ reqs[1].user.role = "Admin"
  /\ reqs[1].body.role = "Unicorn"
  /\ reqs[1].id # reqs[1].user.id
  /\ \E u \in users : u.id = reqs[1].id
  /\ reqs[1].resp = InvalidRoleResp

\* C11: a Job leaves the store only in a step of a deleteJob request for that
\* Job made with the identity of the Recruiter the Job belongs to; the lookup
\* of a deleteJob answers "User not authorized" when the Job belongs to
\* another Recruiter and "Job not found" when the Job is absent, and in both
\* cases the request ends there with every collection unchanged.
JobRemovedByOwnerOnly ==
  [][/\ \A j \in jobs \ jobs' :
          \E r \in Slots :
            /\ reqs[r].op = "deleteJob" /\ reqs'[r] # reqs[r]
            /\ reqs[r].id = j.id
            /\ reqs[r].user = [id |-> j.recruiter, role |-> "Recruiter"]
     /\ \A r \in Slots :
          LET q  == reqs[r]
              jb == {j \in jobs : j.id = q.id}
          IN (q.op = "deleteJob" /\ q.pc = "deljob_find" /\ reqs'[r] # q)
             => /\ jb = {}
                     => (reqs'[r].pc = "done" /\ reqs'[r].resp = JobNotFoundResp /\ db' = db)
                /\ (\E j \in jb : j.recruiter # q.user.id)
                     => (reqs'[r].pc = "done" /\ reqs'[r].resp = NotOwnerResp /\ db' = db)]_vars

\* C11 witness: a Recruiter's deleteJob of another Recruiter's Job was answered
\* "User not authorized"; the Job and an Application for it are still stored.
ForeignDeleteRefused ==
  \E r \in Slots :
    /\ reqs[r].op = "deleteJob" /\ reqs[r].resp = NotOwnerResp
    /\ \E j \in jobs : /\ j.id = reqs[r].id /\ j.recruiter # reqs[r].user.id
                        /\ \E a \in applications : a.job = j.id

\* C12: for every protected route and every header a client can send, a
\* missing token is answered 401 "No token", a token that does not verify
\* 401 "Token is not valid" whatever role it names, a verified token of
\* another role 403 on the Candidate and Admin routes and 401 on the Recruiter
\* routes, and only a verified token of the required role lets the handler
\* run (as the token's user); accepting or refusing a request writes nothing,
\* and every write is a step of a request that passed both checks.
GuardDecides ==
  /\ [](\A op \in WorkOps \cup AdminOps : \A hdr \in Headers : \A id \in Params(op) :
        \A body \in GuardBodies(op) :
          LET o    == AcceptOutcome(op, hdr, id, body)
              need == IF op \in {"saveResume", "deleteResume", "updateTemplate", "apply"}
                      THEN "Candidate"
                      ELSE IF op \in {"createJob", "deleteJob"} THEN "Recruiter" ELSE "Admin"
          IN IF hdr = {} THEN o.pc = "done" /\ o.resp = NoTokenResp
             ELSE \A t \in hdr :
               IF t.key # JwtSecret \/ now >= t.iat + 5
               THEN o.pc = "done" /\ o.resp = BadTokenResp /\ o.resp.status = 401
               ELSE IF t.user.role # need
               THEN /\ o.pc = "done"
                    /\ o.resp.status = IF need = "Recruiter" THEN 401 ELSE 403
                    /\ o.resp \notin {NoTokenResp, BadTokenResp}
               ELSE /\ o.user = t.user
                    /\ o.pc = "done" => (op = "changeRole" /\ o.resp = InvalidRoleResp))
  /\ [][/\ (\A r \in Slots : Arrives(r) => db' = db)
         /\ (db' # db) => \E r \in Slots : \E t \in tokens :
               /\ InFlight(r) /\ reqs'[r] # reqs[r]
               /\ reqs[r].user = t.user /\ t.key = JwtSecret /\ t.iat + 5 > now
               /\ reqs[r].user.role =
                    (IF reqs[r].op \in {"saveResume", "deleteResume", "updateTemplate", "apply"}
                     THEN "Candidate"
                     ELSE IF reqs[r].op \in {"createJob", "deleteJob"} THEN "Recruiter"
                     ELSE "Admin")]_vars

\* C12 witness: a Candidate's verified token on a Recruiter route was answered
\* 401 "Only recruiters can access this route" and no Job was stored.
CandidateOnRecruiterRoute ==
  \E r \in Slots :
    /\ reqs[r].op = "createJob" /\ reqs[r].pc = "done"
    /\ reqs[r].user.role = "Candidate"
    /\ reqs[r].resp = NotRecruiterResp
    /\ nextId.job = 2

\* C13: with one request at a time, no step of a deleteUser request changes a
\* Job, Resume, Application or RecruiterProfile; the request ends with "User
\* not found" and every User unchanged when the target is absent, and with
\* "User removed" and exactly the target's User record gone when the target
\* is stored and is not the actor.
DeleteUserNoCascade ==
  [][\A r \in SeqSlots :
      LET q   == reqs[r]
          tgt == {u \in users : u.id = q.id}
      IN (q.op = "deleteUser" /\ InFlight(r) /\ reqs'[r] # q)
         => /\ <<profiles, resumes, jobs, applications>>'
                 = <<profiles, resumes, jobs, applications>>
            /\ reqs'[r].pc # "done" => users' = users
            /\ (reqs'[r].pc = "done" /\ tgt = {})
                 => (reqs'[r].resp = UserNotFoundResp /\ users' = users)
            /\ (reqs'[r].pc = "done" /\ tgt # {} /\ q.id # q.user.id)
                 => (reqs'[r].resp = UserRemovedResp /\ users' = users \ tgt
                     /\ Cardinality(tgt) = 1)]_vars

\* C13 witness: the Recruiter's User was removed by an Admin; the Job it
\* created, the Application for that Job and its RecruiterProfile are still
\* stored.
RecruiterDeletedJobsRemain ==
  /\ reqs[1].op = "deleteUser" /\ reqs[1].resp = UserRemovedResp
  /\ \A u \in users : u.id # reqs[1].id
  /\ \E j \in jobs : /\ j.recruiter = reqs[1].id
                      /\ \E a \in applications : a.job = j.id
  /\ \E p \in profiles : p.user = reqs[1].id

\* C14: with one request at a time, after a saveResume that is answered
\* "Resume saved successfully!" the candidate has one Resume and its content
\* is what the payload alone determines: a field the payload lacks is not
\* kept from the Resume stored before.
SaveResumeReplaces ==
  [][\A r \in SeqSlots :
      LET q == reqs[r] IN
      (Completes(r, "saveResume") /\ reqs'[r].resp = ResumeSavedResp)
        => \E d \in resumes' :
             /\ \A x \in resumes' : x.user = q.user.id => x = d
             /\ d.user = q.user.id
             /\ d.summary = q.body.summary
             /\ d.template = IF q.body.template = Absent THEN "classic" ELSE q.body.template]_vars

\* C15: a createJob by a Recruiter whose body lacks a required field or has
\* an employmentType outside the enum creates no Job and is answered with
\* something other than the generic server failure a storage error gets.
JobValidationDistinct ==
  \A r \in SeqSlots :
    LET q == reqs[r] IN
    (/\ q.op = "createJob" /\ q.pc = "done" /\ q.user.role = "Recruiter"
     /\ \/ \E f \in {"jobTitle", "location", "employmentType", "jobSummary", "companyName"} :
             q.body[f] = Absent
        \/ q.body.employmentType \notin {"Full-time", "Part-time", "Contract", "Internship"})
    => q.resp # ServerErrorResp

\* C16: whenever no register request is in flight, whether the last one
\* succeeded or failed, every RecruiterProfile is referenced by a stored User.
NoOrphanProfile ==
  (\A r \in Slots : ~InFlight(r))
    => \A p \in profiles : \E u \in users : u.id = p.user /\ u.recruiterProfile = p.id

\* C17: every stored Application has status Submitted, and no step changes
\* the status of a stored Application, whatever the apply body says.
StatusAlwaysSubmitted ==
  /\ [](\A a \in applications : a.status = "Submitted")
  /\ [][\A a \in applications : \A b \in applications' :
          a.id = b.id => b.status = a.status]_vars

\* C17 witness: an apply whose body asked for status Viewed succeeded and the
\* Application it created is Submitted.
ApplyBodyStatusIgnored ==
  /\ reqs[1].op = "apply" /\ reqs[1].resp = AppliedResp
  /\ reqs[1].body.status = "Viewed"
  /\ \E a \in applications :
       /\ a.job = reqs[1].id /\ a.candidate = reqs[1].user.id
       /\ a.status = "Submitted"

\* C18: whenever no request is in flight, every Application references a
\* stored Job, also after an apply and a deleteJob for the same Job ran with
\* their persistence calls interleaved.
NoDanglingApplication ==
  (\A r \in Slots : ~InFlight(r))
    => \A a \in applications : \E j \in jobs : j.id = a.job

\* C19: every Job a step stores has the recruiter of the token of the
\* createJob request that stored it, every Resume a step stores or rewrites
\* has the user of the token of the saveResume request that did so and no
\* other user's Resume changes, and every Application a step stores has the
\* candidate of the token of the apply request that stored it, whatever
\* owner the body names.
OwnerFromToken ==
  [][\A r \in SeqSlots :
      LET q == reqs[r] IN
      (InFlight(r) /\ reqs'[r] # q)
        => /\ \A j \in jobs' \ jobs : q.op = "createJob" /\ j.recruiter = q.user.id
           /\ \A d \in resumes' \ resumes : q.op = "saveResume" /\ d.user = q.user.id
           /\ \A d \in resumes : d.user # q.user.id => d \in resumes'
           /\ \A a \in applications' \ applications :
                q.op = "apply" /\ a.candidate = q.user.id]_vars

\* C19 witness: a saveResume whose body names the other candidate as user
\* succeeded; the caller has a Resume of its own with the body's summary and
\* the other candidate's Resume is as it was.
BodyOwnerIgnored ==
  /\ reqs[1].op = "saveResume" /\ reqs[1].resp = ResumeSavedResp
  /\ reqs[1].user.id = 1
  /\ "user" \in DOMAIN reqs[1].body /\ reqs[1].body.user = 2
  /\ \E d \in resumes : d.user = 1 /\ d.summary = "s1"
  /\ [id |-> 1, user |-> 2, summary |-> "s0", template |-> "classic"] \in resumes

\* C20: no step takes the store from holding a User with role Admin to
\* holding none.
LastAdminKept ==
  [][(\E u \in users : u.role = "Admin") => (\E u \in users' : u.role = "Admin")]_vars

====
